---------------------------- MODULE Spec2Model ----------------------------
(***************************************************************************)
(* State-machine model of the english_quotes egui front end                *)
(* (src/egui/eq_app.rs): the EnglishQuotesApp struct, one action per UI     *)
(* event handled by EnglishQuotesApp::update, the on_exit handler and the   *)
(* Default constructor.  The database layer (english_quotes::db), the       *)
(* category helpers (crate::utility) and the category list (ALL_PERMS) are  *)
(* called by eq_app.rs but live in other files; they are modelled from the  *)
(* specification document.                                                  *)
(*                                                                         *)
(* Strings are sequences of character codes, a Quote(String, Vec<String>)  *)
(* is the pair <<text, categories>>, Option<T> is a sequence of length at   *)
(* most one.                                                               *)
(***************************************************************************)
EXTENDS Integers, Sequences, FiniteSets, TLC

VARIABLES
    current_state,    \* EnglishQuotesApp.current_state : CurrentAppState
    current_db,       \* EnglishQuotesApp.current_db : Vec<Quote>
    current_checked,  \* EnglishQuotesApp.current_checked : Vec<bool>
    quote_settings,   \* EnglishQuotesApp.quote_settings : Option<Quote>
    file,             \* the persisted database file (FileType::Database)
    warnings,         \* the warn! records emitted by the last handler
    running,          \* whether the process is alive (between Default and on_exit)
    nfail,            \* number of file-system failures so far
    dedups,           \* whether the Sort pass also collapses duplicates
    edit              \* history: the Edit Quote click still being followed

vars == <<current_state, current_db, current_checked, quote_settings,
          file, warnings, running, nfail, dedups, edit>>

---------------------------------------------------------------------------
(* Bounds *)

\* number of categories in the fixed category list
NumPerms == 2
\* largest database: Submit is disabled beyond it
MaxDb == 2
\* number of file-system failures the environment may inject
MaxFail == 1

---------------------------------------------------------------------------
(* Strings *)

\* the texts the user types into a text_edit_singleline, over the characters
\* ' ' (32), 'A' (65) and 'a' (97): "", " ", "a", "A", "aA", " a" and "a "
Strings == {<<>>, <<32>>, <<97>>, <<65>>, <<97, 65>>, <<32, 97>>, <<97, 32>>}

Min(a, b) == IF a < b THEN a ELSE b

\* char::is_whitespace on the modelled alphabet
is_whitespace(c) == c = 32

RECURSIVE trim_start(_)
trim_start(s) ==
    IF s = <<>> THEN <<>>
    ELSE IF is_whitespace(Head(s)) THEN trim_start(Tail(s))
    ELSE s

RECURSIVE trim_end(_)
trim_end(s) ==
    IF s = <<>> THEN <<>>
    ELSE IF is_whitespace(s[Len(s)]) THEN trim_end(SubSeq(s, 1, Len(s) - 1))
    ELSE s

\* str::trim : strips leading and trailing whitespace
trim(s) == trim_end(trim_start(s))

\* whether pat occurs in s starting at position i
starts_with_at(s, pat, i) ==
    /\ i + Len(pat) - 1 <= Len(s)
    /\ \A k \in 1..Len(pat) : s[i + k - 1] = pat[k]

RECURSIVE str_contains_from(_, _, _)
str_contains_from(s, pat, i) ==
    IF i + Len(pat) - 1 > Len(s) THEN FALSE
    ELSE IF starts_with_at(s, pat, i) THEN TRUE
    ELSE str_contains_from(s, pat, i + 1)

\* a contains that folds 'A' onto 'a' before it compares
to_lower(s) == [i \in 1..Len(s) |-> IF s[i] = 65 THEN 97 ELSE s[i]]
str_contains_ignore_case(s, pat) == str_contains_from(to_lower(s), to_lower(pat), 1)

\* str::contains(&str) : scan the start positions from the left
str_contains(s, pat) == str_contains_from(s, pat, 1)

\* Ord for String : lexicographic on the character codes
RECURSIVE str_cmp(_, _)
str_cmp(a, b) ==
    IF a = <<>> /\ b = <<>> THEN 0
    ELSE IF a = <<>> THEN -1
    ELSE IF b = <<>> THEN 1
    ELSE IF Head(a) < Head(b) THEN -1
    ELSE IF Head(a) > Head(b) THEN 1
    ELSE str_cmp(Tail(a), Tail(b))

---------------------------------------------------------------------------
(* Category model *)

\* the names of the categories, in declaration order
PermNames == << <<87>>, <<77>>, <<72>>, <<76>> >>

\* quote::ALL_PERMS : the fixed ordered category list
ALL_PERMS == SubSeq(PermNames, 1, NumPerms)

\* Vec<String>::contains
vec_contains(v, t) == \E i \in 1..Len(v) : v[i] = t

RECURSIVE get_chosen_types_from(_, _)
get_chosen_types_from(checked, i) ==
    IF i > Min(Len(checked), Len(ALL_PERMS)) THEN <<>>
    ELSE IF checked[i] THEN <<ALL_PERMS[i]>> \o get_chosen_types_from(checked, i + 1)
    ELSE get_chosen_types_from(checked, i + 1)

\* utility::get_chosen_types : the categories of the true slots, in list order
get_chosen_types(checked) == get_chosen_types_from(checked, 1)

\* a conversion that ticks as many leading slots as there are categories
reverse_chosen_types_by_count(cats) ==
    [i \in 1..Len(ALL_PERMS) |-> i <= Len(cats)]

\* utility::reverse_chosen_types : one bool per category, in ALL_PERMS order
reverse_chosen_types(cats) ==
    [i \in 1..Len(ALL_PERMS) |-> vec_contains(cats, ALL_PERMS[i])]

\* every selection vector the check boxes can show
Selections == [1..Len(ALL_PERMS) -> BOOLEAN]

---------------------------------------------------------------------------
(* Quote record *)

\* Quote(String, Vec<String>)
Quote(text, cats) == <<text, cats>>

\* Ord for Vec<String> : lexicographic, element by element
RECURSIVE vec_cmp(_, _)
vec_cmp(a, b) ==
    IF a = <<>> /\ b = <<>> THEN 0
    ELSE IF a = <<>> THEN -1
    ELSE IF b = <<>> THEN 1
    ELSE IF str_cmp(Head(a), Head(b)) # 0 THEN str_cmp(Head(a), Head(b))
    ELSE vec_cmp(Tail(a), Tail(b))

\* canonical order of quotes: by text, ties broken by the categories
quote_cmp(p, q) ==
    IF str_cmp(p[1], q[1]) # 0 THEN str_cmp(p[1], q[1]) ELSE vec_cmp(p[2], q[2])

\* every quote the entry form can submit
Quotes == {Quote(trim(s), get_chosen_types(c)) : s \in Strings, c \in Selections}

---------------------------------------------------------------------------
(* Database store: english_quotes::db *)

\* Result<T, Error>
Ok(v) == [ok |-> TRUE, val |-> v]
Err(v) == [ok |-> FALSE, val |-> v]

\* insert q into the sorted sequence s, after the elements that are not greater
RECURSIVE insert_sorted(_, _)
insert_sorted(q, s) ==
    IF s = <<>> THEN <<q>>
    ELSE IF quote_cmp(q, Head(s)) < 0 THEN <<q>> \o s
    ELSE <<Head(s)>> \o insert_sorted(q, Tail(s))

\* Vec::sort : stable sort into the canonical order
RECURSIVE vec_sort(_)
vec_sort(db) ==
    IF db = <<>> THEN <<>>
    ELSE insert_sorted(db[Len(db)], vec_sort(SubSeq(db, 1, Len(db) - 1)))

\* Vec::dedup : drops an element equal to the one before it
RECURSIVE vec_dedup(_)
vec_dedup(db) ==
    IF Len(db) <= 1 THEN db
    ELSE IF db[1] = db[2] THEN vec_dedup(Tail(db))
    ELSE <<db[1]>> \o vec_dedup(Tail(db))

\* the canonical order; d says whether the pass also collapses structurally
\* identical quotes
canonical(db, d) == IF d THEN vec_dedup(vec_sort(db)) ELSE vec_sort(db)

\* dropping the first element structurally equal to q, if there is one
RECURSIVE remove_first(_, _)
remove_first(q, db) ==
    IF db = <<>> THEN <<>>
    ELSE IF Head(db) = q THEN Tail(db)
    ELSE <<Head(db)>> \o remove_first(q, Tail(db))

---------------------------------------------------------------------------
(* Persistence: the JSON text of a Vec<Quote>, as a sequence of tokens *)

Tok(k) == [k |-> k, v |-> <<>>]
StrTok(s) == [k |-> "str", v |-> s]

RECURSIVE join_tokens(_)
join_tokens(items) ==
    IF items = <<>> THEN <<>>
    ELSE IF Len(items) = 1 THEN Head(items)
    ELSE Head(items) \o <<Tok(",")>> \o join_tokens(Tail(items))

\* a JSON array of the already serialised items
json_array(items) == <<Tok("[")>> \o join_tokens(items) \o <<Tok("]")>>

\* Serialize for Vec<String>
ser_strings(v) == json_array([i \in 1..Len(v) |-> <<StrTok(v[i])>>])

\* Serialize for Quote : the tuple struct as a two-element array
ser_quote(q) == json_array(<< <<StrTok(q[1])>>, ser_strings(q[2]) >>)

\* a serialiser that loses the first element of the collection
to_vec_skip_first(db) == json_array([i \in 1..(Len(db) - 1) |-> ser_quote(db[i + 1])])

\* serde_json::to_vec(&self.current_db)
to_vec(db) == json_array([i \in 1..Len(db) |-> ser_quote(db[i])])

\* the parsers return the value and the position after it, or an error
Parsed(v, next) == [ok |-> TRUE, val |-> v, next |-> next]
ParseErr == [ok |-> FALSE, val |-> <<>>, next |-> 0]

IsTok(b, i, k) == i <= Len(b) /\ b[i].k = k

RECURSIVE de_strings_items(_, _, _)
de_strings_items(b, i, acc) ==
    IF ~IsTok(b, i, "str") THEN ParseErr
    ELSE IF IsTok(b, i + 1, "]") THEN Parsed(Append(acc, b[i].v), i + 2)
    ELSE IF IsTok(b, i + 1, ",") THEN de_strings_items(b, i + 2, Append(acc, b[i].v))
    ELSE ParseErr

\* Deserialize for Vec<String>
de_strings(b, i) ==
    IF ~IsTok(b, i, "[") THEN ParseErr
    ELSE IF IsTok(b, i + 1, "]") THEN Parsed(<<>>, i + 2)
    ELSE de_strings_items(b, i + 1, <<>>)

\* Deserialize for Quote
de_quote(b, i) ==
    IF ~(IsTok(b, i, "[") /\ IsTok(b, i + 1, "str") /\ IsTok(b, i + 2, ",")) THEN ParseErr
    ELSE LET c == de_strings(b, i + 3) IN
         IF ~c.ok THEN ParseErr
         ELSE IF ~IsTok(b, c.next, "]") THEN ParseErr
         ELSE Parsed(Quote(b[i + 1].v, c.val), c.next + 1)

RECURSIVE de_quotes_items(_, _, _)
de_quotes_items(b, i, acc) ==
    LET q == de_quote(b, i) IN
    IF ~q.ok THEN ParseErr
    ELSE IF IsTok(b, q.next, "]") THEN Parsed(Append(acc, q.val), q.next + 1)
    ELSE IF IsTok(b, q.next, ",") THEN de_quotes_items(b, q.next + 1, Append(acc, q.val))
    ELSE ParseErr

\* serde_json::from_slice::<Vec<Quote>> : the whole input must be one array
from_slice(b) ==
    IF ~IsTok(b, 1, "[") THEN Err(<<>>)
    ELSE LET r == IF IsTok(b, 2, "]") THEN Parsed(<<>>, 3)
                  ELSE de_quotes_items(b, 2, <<>>) IN
         IF r.ok /\ r.next = Len(b) + 1 THEN Ok(r.val) ELSE Err(<<>>)

\* the file is absent, or holds the given content
NoFile == [exists |-> FALSE, bytes |-> <<>>]
FileOf(b) == [exists |-> TRUE, bytes |-> b]

\* db::read_db : io says whether the file system lets the read through
read_db(f, io) ==
    IF ~f.exists \/ ~io THEN Err(<<>>) ELSE from_slice(f.bytes)

\* std::fs::write : io says whether the file system lets the write through
fs_write(f, b, io) == IF io THEN FileOf(b) ELSE f

\* the db layer writing the collection through to the persisted file
write_db(f, db, io) == fs_write(f, to_vec(db), io)

\* what a store operation leaves: the collection, the file, and whether it
\* returned an error
Stored(db, f, io) == [db |-> db, file |-> write_db(f, db, io), err |-> ~io]

\* a Sort pass that collapses neighbours before it orders the collection
sort_list_dedup_first(db, f, io, d) ==
    Stored(IF d THEN vec_sort(vec_dedup(db)) ELSE vec_sort(db), f, io)

\* db::sort_list : reorder into the canonical order and write it back
sort_list(db, f, io, d) == Stored(canonical(db, d), f, io)

\* an Add that skips a quote the collection already holds
add_unless_present(q, db, f, io) ==
    Stored(IF vec_contains(db, q) THEN db ELSE Append(db, q), f, io)

\* db::add_quote_to_db : push at the end and write through
add_quote_to_db(q, db, f, io) == Stored(Append(db, q), f, io)

\* a Remove that drops every element equal to q
remove_every(q, db, f, io) ==
    IF vec_contains(db, q)
    THEN Stored(SelectSeq(db, LAMBDA x : x # q), f, io)
    ELSE [db |-> db, file |-> f, err |-> FALSE]

\* db::remove_quote : drop the first structurally equal element and write
\* through; without a match nothing is done and nothing fails
remove_quote(q, db, f, io) ==
    IF vec_contains(db, q)
    THEN Stored(remove_first(q, db), f, io)
    ELSE [db |-> db, file |-> f, err |-> FALSE]

---------------------------------------------------------------------------
(* The application state: EnglishQuotesApp and CurrentAppState *)

QuoteCategories == [tag |-> "QuoteCategories", text |-> <<>>]
QuoteEntry(current_text) == [tag |-> "QuoteEntry", text |-> current_text]
Search(current_search_term) == [tag |-> "Search", text |-> current_search_term]

None == <<>>
Some(x) == <<x>>

\* the messages of the warn! calls
WarnRead == "Unable to read database for EQ App"
WarnExport == "Unable to export"
WarnRemove == "Unable to remove quote"
WarnAdd == "Unable to add quote"
WarnSave == "Unable to save db.json"

\* the warning a failed call leaves in the log
Warn(ok, msg) == IF ok THEN {} ELSE {msg}
\* the number of injected failures among the calls of one handler
Failed(ok) == IF ok THEN 0 ELSE 1

\* a loop that asks for every chosen type instead of any
RECURSIVE works_from_all(_, _, _)
works_from_all(quote, chosen_types, i) ==
    IF i > Len(chosen_types) THEN TRUE
    ELSE IF ~vec_contains(quote[2], chosen_types[i]) THEN FALSE
    ELSE works_from_all(quote, chosen_types, i + 1)

\* the loop over chosen_types that sets the works flag
RECURSIVE works_from(_, _, _)
works_from(quote, chosen_types, i) ==
    IF i > Len(chosen_types) THEN FALSE
    ELSE IF vec_contains(quote[2], chosen_types[i]) THEN TRUE
    ELSE works_from(quote, chosen_types, i + 1)

RECURSIVE filter_works(_, _)
filter_works(db, chosen_types) ==
    IF db = <<>> THEN <<>>
    ELSE IF works_from(Head(db), chosen_types, 1)
         THEN <<Head(db)>> \o filter_works(Tail(db), chosen_types)
    ELSE filter_works(Tail(db), chosen_types)

\* a view that lists everything while no check box is ticked
chosen_quotes_all_when_none(db, checked) ==
    IF get_chosen_types(checked) = <<>> THEN db
    ELSE filter_works(db, get_chosen_types(checked))

\* the quotes listed in the All Quotes view
chosen_quotes(db, checked) == filter_works(db, get_chosen_types(checked))

RECURSIVE filter_contains(_, _)
filter_contains(db, term) ==
    IF db = <<>> THEN <<>>
    ELSE IF str_contains(Head(db)[1], term)
         THEN <<Head(db)>> \o filter_contains(Tail(db), term)
    ELSE filter_contains(Tail(db), term)

\* a Search view that lists nothing until a term is typed
search_blank_none(db, current_search_term) ==
    LET search_results == IF current_search_term = <<>> THEN <<>>
                          ELSE filter_contains(db, current_search_term)
    IN [search_results |-> search_results,
        total_no |-> Len(db),
        search_no |-> Len(search_results)]

\* the tuple (search_results, total_no, search_no) of the Search view
search(db, current_search_term) ==
    LET full_list_clone == db
        search_results == filter_contains(full_list_clone, current_search_term)
    IN [search_results |-> search_results,
        total_no |-> Len(full_list_clone),
        search_no |-> Len(search_results)]

\* the quotes display_quotes_list shows, each with its click callback
displayed ==
    IF current_state.tag = "QuoteCategories"
        THEN chosen_quotes(current_db, current_checked)
    ELSE IF current_state.tag = "Search"
        THEN search(current_db, current_state.text).search_results
    ELSE <<>>

Range(s) == {s[i] : i \in 1..Len(s)}

---------------------------------------------------------------------------
(* Construction *)

\* a construction that loads the persisted quotes last to first
Default_reversed(f, io) ==
    LET r == read_db(f, io) IN
    /\ current_state' = QuoteCategories
    /\ current_db' = IF r.ok THEN [i \in 1..Len(r.val) |-> r.val[Len(r.val) + 1 - i]]
                     ELSE <<>>
    /\ current_checked' = [i \in 1..Len(ALL_PERMS) |-> FALSE]
    /\ quote_settings' = None
    /\ warnings' = Warn(r.ok, WarnRead)

\* Default for EnglishQuotesApp, reading the file f
Default(f, io) ==
    LET r == read_db(f, io) IN
    /\ current_state' = QuoteCategories
    /\ current_db' = IF r.ok THEN r.val ELSE <<>>
    /\ current_checked' = [i \in 1..Len(ALL_PERMS) |-> FALSE]
    /\ quote_settings' = None
    /\ warnings' = Warn(r.ok, WarnRead)

\* a database file left in the order its quotes were added: "a" before "A"
UnsortedFile ==
    FileOf(to_vec(<<Quote(<<97>>, <<ALL_PERMS[1]>>), Quote(<<65>>, <<>>)>>))

\* the files a first start can find: none, a truncated one, or a database
\* that is not in canonical order
InitFiles == {NoFile, FileOf(<<Tok("[")>>), UnsortedFile}

Init ==
    /\ file \in InitFiles
    /\ current_state = QuoteCategories
    /\ current_db = (IF read_db(file, TRUE).ok THEN read_db(file, TRUE).val ELSE <<>>)
    /\ current_checked = [i \in 1..Len(ALL_PERMS) |-> FALSE]
    /\ quote_settings = None
    /\ warnings = Warn(read_db(file, TRUE).ok, WarnRead)
    /\ running = TRUE
    /\ nfail = 0
    /\ dedups \in BOOLEAN
    /\ edit = None

\* the process is started again after an exit
Startup ==
    /\ ~running
    /\ \E io \in BOOLEAN :
        /\ nfail + Failed(io) <= MaxFail
        /\ nfail' = nfail + Failed(io)
        /\ Default(file, io)
    /\ running' = TRUE
    /\ UNCHANGED <<file, dedups>>

---------------------------------------------------------------------------
(* update: the side panel *)

ClickAllQuotes ==
    /\ running
    /\ current_state' = QuoteCategories
    /\ warnings' = {}
    /\ UNCHANGED <<current_db, current_checked, quote_settings, file,
                   running, nfail, dedups>>

\* a Quote Entry button that also unticks every check box
ClickQuoteEntry_clears_checked ==
    /\ running
    /\ current_state' = QuoteEntry(<<>>)
    /\ current_checked' = [i \in 1..Len(ALL_PERMS) |-> FALSE]
    /\ warnings' = {}
    /\ UNCHANGED <<current_db, quote_settings, file, running, nfail, dedups>>

ClickQuoteEntry ==
    /\ running
    /\ current_state' = QuoteEntry(<<>>)
    /\ warnings' = {}
    /\ UNCHANGED <<current_db, current_checked, quote_settings, file,
                   running, nfail, dedups>>

ClickSearchQuotes ==
    /\ running
    /\ current_state' = Search(<<>>)
    /\ warnings' = {}
    /\ UNCHANGED <<current_db, current_checked, quote_settings, file,
                   running, nfail, dedups>>

ClickExport ==
    /\ running
    /\ \E io \in BOOLEAN :
        /\ nfail + Failed(io) <= MaxFail
        /\ nfail' = nfail + Failed(io)
        /\ warnings' = Warn(io, WarnExport)
    /\ UNCHANGED <<current_state, current_db, current_checked, quote_settings,
                   file, running, dedups>>

---------------------------------------------------------------------------
(* update: the Quote Settings window *)

\* a Delete Quote that leaves the settings window on the deleted quote
ClickDeleteQuote_keeps_selection ==
    /\ running
    /\ quote_settings # None
    /\ \E io \in BOOLEAN :
        LET quote == quote_settings[1]
            removed == remove_quote(quote, current_db, file, io)
        IN  /\ nfail + Failed(~removed.err) <= MaxFail
            /\ nfail' = nfail + Failed(~removed.err)
            /\ current_db' = removed.db
            /\ file' = removed.file
            /\ warnings' = Warn(~removed.err, WarnRemove)
    /\ UNCHANGED <<current_state, current_checked, quote_settings, running, dedups>>

ClickDeleteQuote ==
    /\ running
    /\ quote_settings # None
    /\ \E io \in BOOLEAN :
        LET quote == quote_settings[1]
            removed == remove_quote(quote, current_db, file, io)
        IN  /\ nfail + Failed(~removed.err) <= MaxFail
            /\ nfail' = nfail + Failed(~removed.err)
            /\ current_db' = removed.db
            /\ file' = removed.file
            /\ warnings' = Warn(~removed.err, WarnRemove)
    /\ quote_settings' = None
    /\ UNCHANGED <<current_state, current_checked, running, dedups>>

\* an Edit Quote that gives the check boxes one slot per category of the quote
ClickEditQuote_checked_per_category ==
    /\ running
    /\ quote_settings # None
    /\ \E io \in BOOLEAN :
        LET quote == quote_settings[1]
            removed == remove_quote(quote, current_db, file, io)
        IN  /\ nfail + Failed(~removed.err) <= MaxFail
            /\ nfail' = nfail + Failed(~removed.err)
            /\ current_db' = removed.db
            /\ file' = removed.file
            /\ warnings' = Warn(~removed.err, WarnRemove)
            /\ current_state' = QuoteEntry(quote[1])
            /\ current_checked' = [i \in 1..Len(quote[2]) |-> TRUE]
    /\ quote_settings' = None
    /\ UNCHANGED <<running, dedups>>

\* an Edit Quote that copies the quote into the form and leaves it in the
\* database
ClickEditQuote_copies ==
    /\ running
    /\ quote_settings # None
    /\ current_state' = QuoteEntry(quote_settings[1][1])
    /\ current_checked' = reverse_chosen_types(quote_settings[1][2])
    /\ warnings' = {}
    /\ quote_settings' = None
    /\ UNCHANGED <<current_db, file, nfail, running, dedups>>

\* an Edit Quote that leaves the check boxes as they were
ClickEditQuote_keeps_checked ==
    /\ running
    /\ quote_settings # None
    /\ \E io \in BOOLEAN :
        LET quote == quote_settings[1]
            removed == remove_quote(quote, current_db, file, io)
        IN  /\ nfail + Failed(~removed.err) <= MaxFail
            /\ nfail' = nfail + Failed(~removed.err)
            /\ current_db' = removed.db
            /\ file' = removed.file
            /\ warnings' = Warn(~removed.err, WarnRemove)
            /\ current_state' = QuoteEntry(quote[1])
    /\ quote_settings' = None
    /\ UNCHANGED <<current_checked, running, dedups>>

ClickEditQuote ==
    /\ running
    /\ quote_settings # None
    /\ \E io \in BOOLEAN :
        LET quote == quote_settings[1]
            removed == remove_quote(quote, current_db, file, io)
        IN  /\ nfail + Failed(~removed.err) <= MaxFail
            /\ nfail' = nfail + Failed(~removed.err)
            /\ current_db' = removed.db
            /\ file' = removed.file
            /\ warnings' = Warn(~removed.err, WarnRemove)
            /\ current_state' = QuoteEntry(quote[1])
            /\ current_checked' = reverse_chosen_types(quote[2])
    /\ quote_settings' = None
    /\ UNCHANGED <<running, dedups>>

ClickCancel ==
    /\ running
    /\ quote_settings # None
    /\ quote_settings' = None
    /\ warnings' = {}
    /\ UNCHANGED <<current_state, current_db, current_checked, file,
                   running, nfail, dedups>>

---------------------------------------------------------------------------
(* update: the central panel *)

\* vertical_category_checkbox: the user flips one check box
ToggleCheckbox ==
    /\ running
    /\ current_state.tag \in {"QuoteCategories", "QuoteEntry"}
    /\ \E i \in 1..Len(current_checked) :
        current_checked' = [current_checked EXCEPT ![i] = ~current_checked[i]]
    /\ warnings' = {}
    /\ UNCHANGED <<current_state, current_db, quote_settings, file,
                   running, nfail, dedups>>

\* display_quotes_list: the user clicks a listed quote
ClickQuote ==
    /\ running
    /\ \E quote \in Range(displayed) : quote_settings' = Some(quote)
    /\ warnings' = {}
    /\ UNCHANGED <<current_state, current_db, current_checked, file,
                   running, nfail, dedups>>

\* text_edit_singleline(current_text)
EditText ==
    /\ running
    /\ current_state.tag = "QuoteEntry"
    /\ \E s \in Strings \ {current_state.text} : current_state' = QuoteEntry(s)
    /\ warnings' = {}
    /\ UNCHANGED <<current_db, current_checked, quote_settings, file,
                   running, nfail, dedups>>

\* a Submit that keeps the vec![] of the error path as the collection
ClickSubmit_keeps_fallback ==
    /\ running
    /\ current_state.tag = "QuoteEntry"
    /\ Len(current_db) < MaxDb
    /\ \E io_add, io_sort \in BOOLEAN :
        LET new_text == trim(current_state.text)
            chosen_ts == get_chosen_types(current_checked)
            new_quote == Quote(new_text, chosen_ts)
            added == add_quote_to_db(new_quote, current_db, file, io_add)
            sorted == sort_list(IF added.err THEN <<>> ELSE added.db,
                                added.file, io_sort, dedups)
        IN  /\ nfail + Failed(io_add) + Failed(io_sort) <= MaxFail
            /\ nfail' = nfail + Failed(io_add) + Failed(io_sort)
            /\ current_db' = sorted.db
            /\ file' = sorted.file
            /\ warnings' = Warn(~added.err, WarnAdd) \cup Warn(~sorted.err, WarnRemove)
    /\ current_state' = QuoteEntry(<<>>)
    /\ UNCHANGED <<current_checked, quote_settings, running, dedups>>

ClickSubmit ==
    /\ running
    /\ current_state.tag = "QuoteEntry"
    /\ Len(current_db) < MaxDb
    /\ \E io_add, io_sort \in BOOLEAN :
        LET new_text == trim(current_state.text)
            chosen_ts == get_chosen_types(current_checked)
            new_quote == Quote(new_text, chosen_ts)
            added == add_quote_to_db(new_quote, current_db, file, io_add)
            sorted == sort_list(added.db, added.file, io_sort, dedups)
        IN  /\ nfail + Failed(io_add) + Failed(io_sort) <= MaxFail
            /\ nfail' = nfail + Failed(io_add) + Failed(io_sort)
            /\ current_db' = sorted.db
            /\ file' = sorted.file
            /\ warnings' = Warn(~added.err, WarnAdd) \cup Warn(~sorted.err, WarnRemove)
    /\ current_state' = QuoteEntry(<<>>)
    /\ UNCHANGED <<current_checked, quote_settings, running, dedups>>

\* text_edit_singleline(current_search_term)
EditSearchTerm ==
    /\ running
    /\ current_state.tag = "Search"
    /\ \E s \in Strings \ {current_state.text} : current_state' = Search(s)
    /\ warnings' = {}
    /\ UNCHANGED <<current_db, current_checked, quote_settings, file,
                   running, nfail, dedups>>

---------------------------------------------------------------------------
(* on_exit *)

\* the process ends after on_exit and the EnglishQuotesApp value is dropped
Dropped ==
    /\ current_state' = QuoteCategories
    /\ current_db' = <<>>
    /\ current_checked' = [i \in 1..Len(ALL_PERMS) |-> FALSE]
    /\ quote_settings' = None

\* an exit that saves the collection as it stands, without the Sort pass
OnExit_no_sort ==
    /\ running
    /\ \E io_save \in BOOLEAN :
        /\ nfail + Failed(io_save) <= MaxFail
        /\ nfail' = nfail + Failed(io_save)
        /\ file' = fs_write(file, to_vec(current_db), io_save)
        /\ warnings' = Warn(io_save, WarnSave)
    /\ Dropped
    /\ running' = FALSE
    /\ UNCHANGED dedups

OnExit ==
    /\ running
    /\ \E io_sort, io_save \in BOOLEAN :
        LET sorted == sort_list(current_db, file, io_sort, dedups) IN
            /\ nfail + Failed(io_sort) + Failed(io_save) <= MaxFail
            /\ nfail' = nfail + Failed(io_sort) + Failed(io_save)
            /\ file' = fs_write(sorted.file, to_vec(sorted.db), io_save)
            /\ warnings' = Warn(~sorted.err, WarnRemove) \cup Warn(io_save, WarnSave)
    /\ Dropped
    /\ running' = FALSE
    /\ UNCHANGED dedups

---------------------------------------------------------------------------

Next ==
    \/ Startup /\ UNCHANGED edit
    \/ ClickAllQuotes /\ UNCHANGED edit
    \/ ClickQuoteEntry /\ UNCHANGED edit
    \/ ClickSearchQuotes /\ UNCHANGED edit
    \/ ClickExport /\ UNCHANGED edit
    \/ ClickDeleteQuote /\ UNCHANGED edit
    \/ ClickEditQuote /\ UNCHANGED edit
    \/ ClickCancel /\ UNCHANGED edit
    \/ ToggleCheckbox /\ UNCHANGED edit
    \/ ClickQuote /\ UNCHANGED edit
    \/ EditText /\ UNCHANGED edit
    \/ ClickSubmit /\ UNCHANGED edit
    \/ EditSearchTerm /\ UNCHANGED edit
    \/ OnExit /\ UNCHANGED edit

Spec == Init /\ [][Next]_vars

---------------------------------------------------------------------------
(* The same program with the history of the last Edit Quote click *)

\* Edit Quote was clicked on quote while the database was db; untouched says
\* that the entry form still is as the click left it, submitted that Submit
\* has been clicked on it
Editing(quote, db, untouched, submitted) ==
    [quote |-> quote, db |-> db, untouched |-> untouched, submitted |-> submitted]

\* a menu button is clicked while the edit is followed
EditAfterMenu ==
    IF edit = None \/ edit[1].submitted THEN None
    ELSE Some(Editing(edit[1].quote, edit[1].db,
                      edit[1].untouched /\ current_state' = current_state, FALSE))

\* Submit is clicked while the edit is followed
EditAfterSubmit ==
    IF edit = None \/ edit[1].submitted \/ ~edit[1].untouched THEN None
    ELSE Some(Editing(edit[1].quote, edit[1].db, TRUE, TRUE))

NextHist ==
    \/ ClickEditQuote
        /\ edit' = Some(Editing(quote_settings[1], current_db, TRUE, FALSE))
    \/ ClickSubmit /\ edit' = EditAfterSubmit
    \/ ClickAllQuotes /\ edit' = EditAfterMenu
    \/ ClickQuoteEntry /\ edit' = EditAfterMenu
    \/ ClickSearchQuotes /\ edit' = EditAfterMenu
    \/ ClickExport /\ edit' = EditAfterMenu
    \/ Startup /\ edit' = None
    \/ ClickDeleteQuote /\ edit' = None
    \/ ClickCancel /\ edit' = None
    \/ ToggleCheckbox /\ edit' = None
    \/ ClickQuote /\ edit' = None
    \/ EditText /\ edit' = None
    \/ EditSearchTerm /\ edit' = None
    \/ OnExit /\ edit' = None

SpecHist == Init /\ [][NextHist]_vars

---------------------------------------------------------------------------
(* Properties *)

\* the quote the Submit button would build from the entry form
new_quote == Quote(trim(current_state.text), get_chosen_types(current_checked))

\* the content of the persisted file, when it reads as a database
file_db == read_db(file, TRUE)

\* C1: persistence round trip.  When on_exit saves the database db (the final
\* write goes through), the saved file reads back as exactly Sort(db), and a
\* start that can read the file has exactly the file's content as database.
C1_RoundTrip ==
    [][ /\ (running /\ ~running' /\ WarnSave \notin warnings')
            => read_db(file', TRUE) = Ok(canonical(current_db, dedups))
        /\ (~running /\ running' /\ WarnRead \notin warnings')
            => Ok(current_db') = read_db(file, TRUE) ]_vars

\* a saved file that holds two different quotes, after an exit without warning
C1_Witness ==
    /\ ~running
    /\ warnings = {}
    /\ file_db.ok /\ Len(file_db.val) = 2 /\ file_db.val[1] # file_db.val[2]

\* C2: Sort is idempotent.  For the database, and for the database with the
\* entry form's quote added at its end as Submit adds it, a second Sort pass
\* leaves the collection exactly as the first pass left it.
C2_SortIdempotent ==
    \A db \in {current_db, Append(current_db, new_quote)} :
        LET once == sort_list(db, file, TRUE, dedups)
            twice == sort_list(once.db, once.file, TRUE, dedups)
        IN twice.db = once.db

\* the entry form holds a quote whose Submit makes the first Sort pass reorder
\* a collection of three quotes
C2_Witness ==
    /\ running
    /\ current_state.tag = "QuoteEntry"
    /\ Len(current_db) = 2
    /\ LET added == Append(current_db, new_quote) IN
        sort_list(added, file, TRUE, dedups).db # added

\* the k-th smallest index of the index set I
KthOf(I, k) == CHOOSE i \in I : Cardinality({j \in I : j <= i}) = k

\* view lists exactly the elements of db at the indices I, in db's order
ListsExactly(view, db, I) ==
    /\ Len(view) = Cardinality(I)
    /\ \A k \in 1..Len(view) : view[k] = db[KthOf(I, k)]

\* the category set a selection vector stands for
Wanted(checked) == {ALL_PERMS[i] : i \in {j \in 1..Len(ALL_PERMS) : checked[j]}}

\* C3: for every selection, the All Quotes view lists exactly the quotes of
\* the database whose categories intersect the wanted set, each occurrence
\* once and in database order; no listed quote has zero categories.
C3_FilterByCategories ==
    \A checked \in Selections :
        LET view == chosen_quotes(current_db, checked)
            I == {i \in 1..Len(current_db) :
                    Range(current_db[i][2]) \cap Wanted(checked) # {}}
        IN  /\ ListsExactly(view, current_db, I)
            /\ \A k \in 1..Len(view) : view[k][2] # <<>>

\* the All Quotes view, with a box ticked, lists one of two quotes and leaves
\* out a quote without categories
C3_Witness ==
    /\ running
    /\ current_state.tag = "QuoteCategories"
    /\ Len(current_db) = 2
    /\ \E i \in 1..2 : current_db[i][2] = <<>>
    /\ Len(displayed) = 1

\* C4: while no check box is ticked the All Quotes view lists no quote.
C4_EmptySelectionListsNothing ==
    (\A i \in 1..Len(current_checked) : ~current_checked[i])
        => chosen_quotes(current_db, current_checked) = <<>>

\* the All Quotes view of a database of two quotes with categories, no box ticked
C4_Witness ==
    /\ running
    /\ current_state.tag = "QuoteCategories"
    /\ \A i \in 1..Len(current_checked) : ~current_checked[i]
    /\ Len(current_db) = 2
    /\ \A i \in 1..2 : current_db[i][2] # <<>>

\* term occurs in text as a contiguous run of equal characters
Occurs(term, text) ==
    \E a \in 0..Len(text) :
        /\ a + Len(term) <= Len(text)
        /\ SubSeq(text, a + 1, a + Len(term)) = term

\* C5: for every term, the Search view lists exactly the quotes whose text
\* contains the term as a case-sensitive substring, in database order;
\* search_no is the number listed and total_no the size of the database.
C5_Search ==
    \A term \in Strings :
        LET r == search(current_db, term)
            I == {i \in 1..Len(current_db) : Occurs(term, current_db[i][1])}
        IN  /\ ListsExactly(r.search_results, current_db, I)
            /\ r.search_no = Cardinality(I)
            /\ r.total_no = Len(current_db)

\* the Search view lists one of two quotes for a typed term, and leaves out a
\* quote that differs from the term only by case
C5_Witness ==
    /\ running
    /\ current_state.tag = "Search"
    /\ current_state.text # <<>>
    /\ Len(current_db) = 2
    /\ Len(displayed) = 1
    /\ \E i \in 1..2 : to_lower(current_db[i][1]) = to_lower(current_state.text)
                        /\ current_db[i][1] # current_state.text

\* C6: with the empty term, as the Search Quotes button leaves it, the Search
\* view lists the whole database in its order and search_no = total_no.
C6_EmptyTermListsAll ==
    LET r == search(current_db, <<>>) IN
        /\ r.search_results = current_db
        /\ r.search_no = r.total_no
        /\ (current_state = Search(<<>>) => displayed = current_db)

\* the Search view with the empty term over a database of two quotes
C6_Witness ==
    /\ running
    /\ current_state = Search(<<>>)
    /\ Len(current_db) = 2

\* C7: Add appends.  On every step that leaves the entry form empty, as
\* Submit does, Add of the form's quote gives the collection one longer, with
\* the old elements unchanged in place and the quote last, also when an equal
\* quote is present; and when Submit's Sort cannot write, the file holds what
\* Add wrote: the old collection with the new quote at its end.
C7_AddAppends ==
    [][ (/\ running /\ running'
         /\ current_state.tag = "QuoteEntry"
         /\ current_state' = QuoteEntry(<<>>))
        => /\ LET r == add_quote_to_db(new_quote, current_db, file, TRUE).db IN
                /\ Len(r) = Len(current_db) + 1
                /\ \A i \in 1..Len(current_db) : r[i] = current_db[i]
                /\ r[Len(r)] = new_quote
           /\ (warnings' = {WarnRemove} /\ quote_settings' = quote_settings)
                => read_db(file', TRUE) = Ok(Append(current_db, new_quote)) ]_vars

\* Submit of a quote the database already held, where only Add could write:
\* the file holds the quote twice
C7_Witness ==
    /\ running
    /\ current_state = QuoteEntry(<<>>)
    /\ dedups
    /\ Len(current_db) = 1
    /\ file_db = Ok(<<current_db[1], current_db[1]>>)

\* db without the element at its first index that equals q
WithoutFirst(q, db) ==
    LET I == {i \in 1..Len(db) : db[i] = q} IN
    IF I = {} THEN db
    ELSE LET i == KthOf(I, 1) IN SubSeq(db, 1, i - 1) \o SubSeq(db, i + 1, Len(db))

\* C8: Remove drops exactly the first element equal to the quote and keeps
\* all others, later duplicates included, in place and in order; without an
\* equal element the collection and the file stay as they are and no error
\* is returned.  On every step that closes the Quote Settings window this
\* holds of Remove for the selected quote and for the entry form's quote, and
\* Delete Quote and Edit Quote change the database that way.
C8_RemoveFirst ==
    [][ (running /\ running' /\ quote_settings # None /\ quote_settings' = None)
        => /\ \A q \in {quote_settings[1], new_quote} : \A io \in BOOLEAN :
                LET r == remove_quote(q, current_db, file, io) IN
                    /\ r.db = WithoutFirst(q, current_db)
                    /\ (q \notin Range(current_db))
                        => (r.db = current_db /\ r.file = file /\ ~r.err)
           /\ current_db' = WithoutFirst(quote_settings[1], current_db)
                \/ current_db' = current_db ]_vars

\* Delete Quote on a quote held twice, where the write failed: one occurrence
\* is left in the database and the file still holds both
C8_Witness ==
    /\ running
    /\ current_state.tag # "QuoteEntry"
    /\ ~dedups
    /\ warnings = {WarnRemove}
    /\ Len(current_db) = 1
    /\ file_db = Ok(<<current_db[1], current_db[1]>>)

\* C9: no quote of the database has empty text after trimming.
C9_NonEmptyText ==
    \A i \in 1..Len(current_db) : trim(current_db[i][1]) # <<>>

---------------------------------------------------------------------------
(* C11 *)

\* the struct a start gives before any file is looked at
FreshStart ==
    /\ current_state' = QuoteCategories
    /\ \A i \in 1..Len(ALL_PERMS) : ~current_checked'[i]
    /\ quote_settings' = None
    /\ running'

\* C11: Load never fails the process. Every start ends with the application
\* running in QuoteCategories, no box checked and no quote selected; when the
\* file is missing, cannot be read (the read was refused) or does not parse,
\* current_db is empty and the warning is logged; otherwise current_db is the
\* sequence the file holds, quote by quote in file order (its serialisation is
\* the file's content).
C11_LoadNeverFails ==
    [][ (~running /\ running') =>
            /\ FreshStart
            /\ IF ~file.exists \/ nfail' > nfail \/ ~from_slice(file.bytes).ok
               THEN current_db' = <<>> /\ WarnRead \in warnings'
               ELSE to_vec(current_db') = file.bytes /\ warnings' = {} ]_vars

\* a start whose read was refused although the file holds two quotes
C11_Witness ==
    /\ running
    /\ nfail = 1
    /\ warnings = {WarnRead}
    /\ file_db.ok
    /\ Len(file_db.val) = 2
    /\ current_db = <<>>
    /\ current_state = QuoteCategories

---------------------------------------------------------------------------
(* C12 *)

\* a comes no later than b: by text, and by category list when the texts agree
NoLater(a, b) ==
    \/ str_cmp(a[1], b[1]) < 0
    \/ str_cmp(a[1], b[1]) = 0 /\ vec_cmp(a[2], b[2]) <= 0

InCanonicalOrder(db) ==
    \A i \in 1..Len(db) : \A j \in i..Len(db) : NoLater(db[i], db[j])

\* C12: whatever came before, an exit whose final save goes through leaves a
\* file that parses to the quotes of the database in canonical order: ordered
\* by text and then by category list, holding the same quotes (and as many of
\* them, when the Sort pass keeps duplicates).
C12_ExitWritesCanonical ==
    [][ (running /\ ~running' /\ WarnSave \notin warnings') =>
            LET saved == read_db(file', TRUE) IN
            /\ saved.ok
            /\ InCanonicalOrder(saved.val)
            /\ Range(saved.val) = Range(current_db)
            /\ ~dedups => Len(saved.val) = Len(current_db) ]_vars

\* an exit has saved the two quotes of the unsorted file in another order
C12_Witness ==
    /\ ~running
    /\ WarnSave \notin warnings
    /\ file_db.ok
    /\ Len(file_db.val) = 2
    /\ Range(file_db.val) = Range(read_db(UnsortedFile, TRUE).val)
    /\ file # UnsortedFile

---------------------------------------------------------------------------
(* C13 *)

\* the collection the click of this step leaves when no write fails, told from
\* the warning the step logged
AsIfWritten ==
    IF WarnExport \in warnings' THEN current_db
    ELSE IF WarnAdd \notin warnings' /\ quote_settings # None /\ quote_settings' = None
    THEN WithoutFirst(quote_settings[1], current_db)
    ELSE canonical(Append(current_db, new_quote), dedups)

\* a step in which the file system refused a write (or the read of a start)
WriteFailed == nfail' > nfail

\* every menu button can be clicked
MenuEnabled ==
    /\ ENABLED ClickAllQuotes
    /\ ENABLED ClickQuoteEntry
    /\ ENABLED ClickSearchQuotes
    /\ ENABLED ClickExport

\* C13: a failed write is never terminal. The step that meets it logs a
\* warning; while the application runs, the collection is what the same click
\* leaves when the write goes through (nothing emptied, nothing lost), the
\* application keeps running and every menu button can be clicked next; a
\* failed final save leaves the file as it was or as the Sort pass wrote it.
C13_FailuresRecoverable ==
    [][ /\ (WriteFailed /\ running /\ running') =>
            /\ warnings' # {}
            /\ current_db' = AsIfWritten
            /\ MenuEnabled'
        /\ (WriteFailed /\ running /\ ~running') =>
            /\ warnings' # {}
            /\ \/ file' = file
               \/ read_db(file', TRUE) = Ok(canonical(current_db, dedups)) ]_vars

\* the write of an Add has failed and the collection holds two quotes
C13_Witness ==
    /\ running
    /\ WarnAdd \in warnings
    /\ nfail = 1
    /\ Len(current_db) = 2
    /\ current_db[1] # current_db[2]

---------------------------------------------------------------------------
(* C14 *)

\* sel has one slot per category of ALL_PERMS, in that order, true exactly
\* for the categories of S
SelectionOf(sel, S) ==
    /\ Len(sel) = Len(ALL_PERMS)
    /\ \A i \in 1..Len(ALL_PERMS) : sel[i] <=> (ALL_PERMS[i] \in Range(S))

\* the category lists of the fixed category list: what the check boxes can
\* give, and what the quotes of the database and the selected quote carry
CategorySets ==
    {get_chosen_types(c) : c \in Selections}
        \cup {current_db[i][2] : i \in 1..Len(current_db)}
        \cup {quote_settings[i][2] : i \in 1..Len(quote_settings)}

\* C14: the two selection conversions are inverse to each other. For every
\* category set S of the fixed list, reverse_chosen_types(S) has one boolean
\* per category in ALL_PERMS order, true exactly for the members of S, and
\* get_chosen_types gives S back from it; and every selection vector comes
\* back from the category set get_chosen_types makes of it.
C14_SelectionsInverse ==
    /\ \A S \in CategorySets :
        /\ SelectionOf(reverse_chosen_types(S), S)
        /\ get_chosen_types(reverse_chosen_types(S)) = S
    /\ \A c \in Selections \cup {current_checked} :
        reverse_chosen_types(get_chosen_types(c)) = c

\* Edit Quote has put a quote with a category into the form: the boxes show
\* the selection of its categories and a Submit would give them back
C14_Witness ==
    /\ running
    /\ current_state.tag = "QuoteEntry"
    /\ current_state.text # <<>>
    /\ quote_settings = None
    /\ current_db = <<>>
    /\ \E i \in 1..Len(ALL_PERMS) : current_checked[i] /\ ~current_checked[Len(ALL_PERMS) + 1 - i]
    /\ file_db = Ok(<<>>)

---------------------------------------------------------------------------
(* C15 *)

\* how often q occurs in db
Count(q, db) == Cardinality({i \in 1..Len(db) : db[i] = q})

\* a step of the Quote Settings window that takes a quote out of the database
\* and is not a plain Delete: the form or the check boxes change with it
EditStep ==
    /\ running /\ running'
    /\ quote_settings # None
    /\ Len(current_db') < Len(current_db)
    /\ <<current_state, current_checked>>' # <<current_state, current_checked>>

\* C15: Edit Quote on the selected quote q moves q into the entry form in one
\* step: exactly one occurrence of q has left current_db and every other quote
\* stays in place, current_state is QuoteEntry with q's text, current_checked
\* is the selection of q's categories, and quote_settings is None.
C15_EditMovesQuote ==
    [][ EditStep =>
            LET q == quote_settings[1] IN
            /\ Count(q, current_db') = Count(q, current_db) - 1
            /\ Len(current_db') = Len(current_db) - 1
            /\ \A r \in Range(current_db) \ {q} : Count(r, current_db') = Count(r, current_db)
            /\ current_db' = WithoutFirst(q, current_db)
            /\ current_state' = QuoteEntry(q[1])
            /\ SelectionOf(current_checked', q[2])
            /\ quote_settings' = None ]_vars

\* Edit Quote has taken one of two quotes, one with text and a category,
\* while other boxes were ticked
C15_Witness ==
    /\ running
    /\ current_state.tag = "QuoteEntry"
    /\ current_state.text # <<>>
    /\ quote_settings = None
    /\ Len(current_db) = 1
    /\ current_db[1][1] # current_state.text
    /\ get_chosen_types(current_checked) # <<>>
    /\ file_db = Ok(current_db)
    /\ warnings = {}

---------------------------------------------------------------------------
(* C16 *)

\* the text is held by the database or by the entry form
TextHeld(text) ==
    \/ \E i \in 1..Len(current_db) : current_db[i][1] = text
    \/ current_state.tag = "QuoteEntry" /\ current_state.text = text

\* C16: a quote taken out of the database by Edit Quote is never silently
\* lost. In every state after Edit Quote on q in which only menu buttons (All
\* Quotes, Quote Entry, Search Quotes, Export) have been clicked since and
\* Submit has not, q's text is held by current_db or by the entry form.
C16_EditedQuoteHeld ==
    (edit # None /\ ~edit[1].submitted) => TextHeld(edit[1].quote[1])

---------------------------------------------------------------------------
(* C17 *)

\* C17: Edit followed by an unchanged Submit is a round trip. When Edit Quote
\* was clicked on a quote q of the database db and Submit is clicked next
\* with the text and the check boxes as the click left them (only Export or
\* nothing in between), current_db is Sort(db).
C17_EditSubmitRoundTrip ==
    (edit # None /\ edit[1].submitted) =>
        current_db = canonical(edit[1].db, dedups)

\* the first of two different quotes went through Edit Quote and Submit
C17_Witness ==
    /\ edit # None
    /\ edit[1].submitted
    /\ Len(edit[1].db) = 2
    /\ edit[1].db[1] # edit[1].db[2]
    /\ edit[1].quote = edit[1].db[1]
    /\ current_state = QuoteEntry(<<>>)

---------------------------------------------------------------------------
(* C18 *)

\* C18: the quote-settings selection never dangles. At the end of every
\* update frame a selected quote is an element of current_db; a frame in
\* which Delete Quote, Edit Quote or Cancel is clicked, and any frame of the
\* settings window that takes a quote out of the database, ends with
\* quote_settings = None.
C18_SelectionNeverDangles ==
    [][ /\ (running' /\ quote_settings' # None) =>
                quote_settings'[1] \in Range(current_db')
        /\ (running /\ running' /\ quote_settings # None
                /\ (Len(current_db') < Len(current_db)
                    \/ ClickDeleteQuote \/ ClickEditQuote \/ ClickCancel)) =>
                quote_settings' = None ]_vars

\* Submit was clicked while the settings window was open on one of two quotes
C18_Witness ==
    /\ running
    /\ quote_settings # None
    /\ current_state = QuoteEntry(<<>>)
    /\ Len(current_db) = 2
    /\ current_db[1] # current_db[2]
    /\ quote_settings[1] = current_db[2]
    /\ file_db = Ok(current_db)

---------------------------------------------------------------------------
(* C19 *)

\* C19: navigation and export do not touch the data. A click on All Quotes,
\* Quote Entry, Search Quotes or Export leaves current_db, current_checked
\* and quote_settings unchanged; All Quotes shows
\* QuoteCategories, Quote Entry an empty text, Search Quotes an empty search
\* term, and Export leaves current_state alone too.
C19_MenuKeepsData ==
    [][ /\ (ClickAllQuotes \/ ClickQuoteEntry \/ ClickSearchQuotes \/ ClickExport) =>
                UNCHANGED <<current_db, current_checked, quote_settings>>
        /\ ClickAllQuotes => current_state' = QuoteCategories
        /\ ClickQuoteEntry => current_state'.tag = "QuoteEntry" /\ current_state'.text = <<>>
        /\ ClickSearchQuotes => current_state'.tag = "Search" /\ current_state'.text = <<>>
        /\ ClickExport => current_state' = current_state ]_vars

\* Quote Entry was clicked on a typed search term, with two quotes, a ticked
\* box and the settings window open
C19_Witness ==
    /\ running
    /\ current_state = QuoteEntry(<<>>)
    /\ warnings = {}
    /\ nfail = 0
    /\ Len(current_db) = 2
    /\ quote_settings # None
    /\ quote_settings[1][1] # <<>>
    /\ \E i \in 1..Len(current_checked) : current_checked[i]

---------------------------------------------------------------------------
(* C20 *)

\* C20: while the application runs, the selection vector has exactly one
\* boolean per category: current_checked.len() = ALL_PERMS.len(), at startup,
\* after every Edit Quote and after every checkbox toggle.
C20_OneSlotPerCategory ==
    running =>
        /\ Len(current_checked) = Len(ALL_PERMS)
        /\ current_checked \in Selections

\* Edit Quote has just overwritten the boxes with those of a quote that has a
\* category, while the write of its removal failed
C20_Witness ==
    /\ running
    /\ warnings = {WarnRemove}
    /\ current_state.tag = "QuoteEntry"
    /\ current_state.text # <<>>
    /\ quote_settings = None
    /\ current_checked = reverse_chosen_types(<<ALL_PERMS[1]>>)
    /\ Len(current_db) = 1

=============================================================================
